---- MODULE Spec2Model ----
(***************************************************************************)
(* Model of the Ogg/Opus packet reader (oggreader.go, opusreader.go).      *)
(*                                                                         *)
(* The byte source is a finite sequence of bytes.  The Ogg reader parses   *)
(* it page by page exactly as the code does (27-byte header, segment       *)
(* table, body); the Opus reader sits on top of it.  Go byte slices are    *)
(* modelled with their backing array, offset and length, so that a         *)
(* re-slice beyond len but within cap behaves as in Go and a re-slice      *)
(* beyond cap, or an index beyond len, is a run-time panic.                *)
(***************************************************************************)
EXTENDS Integers, Sequences, FiniteSets, TLC

VARIABLES
    desc,      \* the input as it was produced: packets and page layout
    stream,    \* the bytes of the source (io.Reader contents)
    ogg,       \* the OGGReader object (with the read offset of its stream)
    opus,      \* the OPUSReader object (without its OGGReader, which is ogg)
    last,      \* outcome of the last call: what the caller got back
    hist,      \* what the caller has observed so far (counters and sums)
    toc        \* input and output of the TOC interpreter (SpecTOC only)

vars == <<desc, stream, ogg, opus, last, hist, toc>>

(***************************************************************************)
(* Bytes and little-endian encodings                                       *)
(***************************************************************************)
RECURSIVE LEBytes(_, _)
\* n >= 0 as k little-endian bytes
LEBytes(n, k) == IF k = 0 THEN <<>> ELSE <<n % 256>> \o LEBytes(n \div 256, k - 1)

\* two's complement of a small integer as 8 little-endian bytes
LEInt64Bytes(n) ==
    IF n >= 0 THEN LEBytes(n, 8)
    ELSE [i \in 1..8 |-> 255 - LEBytes(-n - 1, 8)[i]]

RECURSIVE LittleEndianUint(_)
\* binary.LittleEndian.UintNN: b[0] | b[1]<<8 | ...
LittleEndianUint(b) ==
    IF b = <<>> THEN 0 ELSE Head(b) + 256 * LittleEndianUint(Tail(b))

\* binary.Read of an int64, little-endian two's complement
LittleEndianInt64(b) ==
    IF b[8] >= 128
    THEN -(LittleEndianUint([i \in 1..8 |-> 255 - b[i]]) + 1)
    ELSE LittleEndianUint(b)

RECURSIVE SumSeq(_)
SumSeq(s) == IF s = <<>> THEN 0 ELSE Head(s) + SumSeq(Tail(s))

RECURSIVE Concat(_)
Concat(ss) == IF ss = <<>> THEN <<>> ELSE Head(ss) \o Concat(Tail(ss))

(***************************************************************************)
(* Go byte slices: backing array, offset, length.  cap = Len(arr) - off.   *)
(***************************************************************************)
NilSlice == [arr |-> <<>>, off |-> 0, len |-> 0]

MkSlice(arr, lo, hi) == [arr |-> arr, off |-> lo, len |-> hi - lo]

SliceCap(s) == Len(s.arr) - s.off

\* the bytes of s, s[0:len(s)]
SliceBytes(s) == SubSeq(s.arr, s.off + 1, s.off + s.len)

\* s[lo:hi] is legal in Go iff 0 <= lo <= hi <= cap(s)
SliceOK(s, lo, hi) == 0 <= lo /\ lo <= hi /\ hi <= SliceCap(s)

\* the bytes of s[lo:hi] (may extend beyond len(s), within cap(s))
SliceSub(s, lo, hi) == SubSeq(s.arr, s.off + lo + 1, s.off + hi)

\* s[i] is legal in Go iff 0 <= i < len(s)
IndexOK(s, i) == 0 <= i /\ i < s.len

SliceAt(s, i) == s.arr[s.off + i + 1]

\* append(a, b...): a has len = cap here or b is empty
SliceAppend(a, b) ==
    IF b.len = 0 THEN a
    ELSE IF a.len + b.len <= SliceCap(a)
         THEN [arr |-> SubSeq(a.arr, 1, a.off + a.len) \o SliceBytes(b)
                       \o SubSeq(a.arr, a.off + a.len + b.len + 1, Len(a.arr)),
               off |-> a.off, len |-> a.len + b.len]
         ELSE [arr |-> SliceBytes(a) \o SliceBytes(b), off |-> 0,
               len |-> a.len + b.len]

(***************************************************************************)
(* Constants of the Ogg page format (oggreader.go)                         *)
(***************************************************************************)
headerFlagContinuedPacket == 1
headerFlagBeginningOfStream == 2
headerFlagEndOfStream == 4
LacingMax == 255
PageHeaderSize == 27

capturePattern == <<79, 103, 103, 83>>   \* "OggS"

(***************************************************************************)
(* io.ReadFull on the source                                               *)
(***************************************************************************)
\* result of io.ReadFull(o.stream, make([]byte, n)) at read offset pos
ReadFull(src, pos, n) ==
    IF n = 0 THEN [err |-> "nil", data |-> <<>>, pos |-> pos]
    ELSE IF pos + n <= Len(src)
         THEN [err |-> "nil", data |-> SubSeq(src, pos + 1, pos + n), pos |-> pos + n]
         ELSE [err  |-> IF pos >= Len(src) THEN "EOF" ELSE "unexpected EOF",
               data |-> <<>>, pos |-> Len(src)]

(***************************************************************************)
(* OGGReader (oggreader.go)                                                *)
(***************************************************************************)
\* new(OGGPage)
NewPage ==
    [CapturePattern          |-> <<0, 0, 0, 0>>,
     Version                 |-> 0,
     HeaderType              |-> 0,
     AbsoluteGranulePosition |-> 0,
     SegmentsNumber          |-> 0,
     initialized             |-> FALSE,
     packets                 |-> <<>>,
     packetsCount            |-> 0,
     packetSizes             |-> <<>>,
     totalSize               |-> 0,
     needsContinue           |-> FALSE]

\* NewOggReader
NewOggReader ==
    [pos                  |-> 0,
     bytesReadSuccesfully |-> 0,
     initialized          |-> FALSE,
     CurrentPage          |-> NewPage,
     lastPacket           |-> FALSE,
     packetIndex          |-> 0,
     lastPagePosition     |-> 0]

RECURSIVE WalkTable(_, _, _)
\* the loop over the segment table: size is the running accumulator
WalkTable(tab, size, acc) ==
    IF tab = <<>> THEN acc
    ELSE LET s == Head(tab) IN
         IF s < LacingMax
         THEN WalkTable(Tail(tab), 0,
                        [acc EXCEPT !.totalSize = @ + s,
                                    !.packetsCount = @ + 1,
                                    !.packetSizes = Append(@, size + s)])
         ELSE WalkTable(Tail(tab), size + s, [acc EXCEPT !.totalSize = @ + s])

\* bit test h & f != 0 for a one-bit flag f
HasFlag(h, f) == (h \div f) % 2 = 1

isFirst(p) == HasFlag(p.HeaderType, headerFlagBeginningOfStream)
isLast(p) == HasFlag(p.HeaderType, headerFlagEndOfStream)

\* lines 136-149 of readPageHeader: the table has been read
readPageHeaderTable(o, tab) ==
    LET N      == o.CurrentPage.SegmentsNumber
        walked == WalkTable(tab, 0,
                            [totalSize |-> 0, packetsCount |-> 0, packetSizes |-> <<>>])
        o2     == [o EXCEPT !.bytesReadSuccesfully = @ + N,
                            !.CurrentPage.totalSize = walked.totalSize,
                            !.CurrentPage.packetsCount = walked.packetsCount,
                            !.CurrentPage.packetSizes = walked.packetSizes]
        \* segmentTable[SegmentsNumber-1], the index computed in uint8
        idx    == (N + 255) % 256
    IN
    IF idx >= Len(tab) THEN [o |-> o2, err |-> "panic"]
    ELSE [o |-> [o2 EXCEPT !.CurrentPage.needsContinue = (tab[idx + 1] = LacingMax)],
          err |-> "nil"]

\* lines 130-134 of readPageHeader: r2 is the outcome of reading the table
readPageHeaderSegments(o, r2) ==
    IF r2.err # "nil" THEN [o |-> [o EXCEPT !.pos = r2.pos], err |-> r2.err]
    ELSE readPageHeaderTable([o EXCEPT !.pos = r2.pos], r2.data)

\* lines 122-130 of readPageHeader: the fixed header has been decoded into o
readPageHeaderCheck(src, o) ==
    IF o.CurrentPage.CapturePattern # capturePattern
    THEN [o |-> o, err |-> "ogg: missing capture pattern"]
    ELSE IF o.CurrentPage.Version # 0
    THEN [o |-> o, err |-> "ogg: unsupported version"]
    ELSE readPageHeaderSegments(o, ReadFull(src, o.pos, o.CurrentPage.SegmentsNumber))

\* lines 113-121 of readPageHeader: r1 is the outcome of reading 27 bytes.
\* The granule position of 27 bytes that do not start with the capture pattern
\* is left at 0: such a page is rejected at line 122 and the field is never
\* read, and the 64-bit value of arbitrary bytes is beyond the integers used
\* here.
readPageHeaderFixed(src, o, r1) ==
    IF r1.err # "nil" THEN [o |-> [o EXCEPT !.pos = r1.pos], err |-> r1.err]
    ELSE readPageHeaderCheck(src,
            [o EXCEPT !.pos = r1.pos,
                      !.bytesReadSuccesfully = @ + PageHeaderSize,
                      !.CurrentPage.CapturePattern = SubSeq(r1.data, 1, 4),
                      !.CurrentPage.Version = r1.data[5],
                      !.CurrentPage.HeaderType = r1.data[6],
                      !.CurrentPage.AbsoluteGranulePosition =
                          IF SubSeq(r1.data, 1, 4) = capturePattern
                          THEN LittleEndianInt64(SubSeq(r1.data, 7, 14))
                          ELSE 0,
                      !.CurrentPage.SegmentsNumber = r1.data[27]])

\* OGGReader.readPageHeader: returns the reader and the error
readPageHeader(src, o) ==
    readPageHeaderFixed(src, o, ReadFull(src, o.pos, PageHeaderSize))

RECURSIVE Offsets(_, _)
\* start offsets of the slices cut by the sizes, and the final offset
Offsets(sizes, off) ==
    IF sizes = <<>> THEN <<off>> ELSE <<off>> \o Offsets(Tail(sizes), off + Head(sizes))

\* lines 93-106 of readPageContent: r is the outcome of reading the body
readPageContentSlices(o, r) ==
    IF r.err # "nil" THEN [o |-> [o EXCEPT !.pos = r.pos], err |-> r.err]
    ELSE
    LET page    == o.CurrentPage
        content == r.data
        offs    == Offsets(page.packetSizes, 0)
        pk      == [i \in 1..(page.packetsCount + 1) |->
                      IF i <= page.packetsCount
                      THEN MkSlice(content, offs[i], offs[i] + page.packetSizes[i])
                      ELSE MkSlice(content, offs[i], Len(content))]
    IN [o |-> [o EXCEPT !.pos = r.pos,
                        !.bytesReadSuccesfully = @ + page.totalSize,
                        !.CurrentPage.packets = pk],
        err |-> "nil"]

\* OGGReader.readPageContent
readPageContent(src, o) ==
    readPageContentSlices(o, ReadFull(src, o.pos, o.CurrentPage.totalSize))

\* lines 84-86 of readPage: c is the outcome of readPageContent
readPageDone(c) ==
    IF c.err # "nil" THEN c
    ELSE [o |-> [c.o EXCEPT !.CurrentPage.initialized = TRUE], err |-> "nil"]

\* lines 77-83 of readPage: h is the outcome of readPageHeader
readPageBody(src, h) ==
    IF h.err # "nil" THEN h ELSE readPageDone(readPageContent(src, h.o))

\* OGGReader.readPage
readPage(src, o) ==
    readPageBody(src, readPageHeader(src, [o EXCEPT !.CurrentPage = NewPage]))

\* the trailer of the previous page is dropped
JoinRestDropped(o, rest) == [o EXCEPT !.packetIndex = 0]

\* a latch armed on every packet of an end-of-stream page
ArmLatchEarly(o) ==
    IF isLast(o.CurrentPage) THEN [o EXCEPT !.lastPacket = TRUE] ELSE o

\* lines 186-188: arm the latch with the last complete packet of the last page
ArmLatch(o) ==
    IF o.packetIndex = o.CurrentPage.packetsCount /\ isLast(o.CurrentPage)
    THEN [o EXCEPT !.lastPacket = TRUE]
    ELSE o

\* the granule position is recorded whatever its value
RecordGranuleAlways(o) ==
    [o EXCEPT !.lastPagePosition = o.CurrentPage.AbsoluteGranulePosition]

\* lines 171-173: the granule position of the page that has been used up
RecordGranule(o) ==
    IF o.CurrentPage.AbsoluteGranulePosition # -1
    THEN [o EXCEPT !.lastPagePosition = o.CurrentPage.AbsoluteGranulePosition]
    ELSE o

\* lines 178-181: the next page is in o; rest is the previous page's trailer
JoinRest(o, rest) ==
    [o EXCEPT !.CurrentPage.packets[1] =
                  IF rest.len > 0 THEN SliceAppend(rest, @) ELSE @,
              !.packetIndex = 0]

RECURSIVE OggNextPacketFrom(_, _)
\* lines 174-182: r is the outcome of readPage
OggNextPage(src, rest, r) ==
    IF r.err # "nil" THEN [o |-> r.o, err |-> r.err, packet |-> NilSlice]
    ELSE OggNextPacketFrom(src, JoinRest(r.o, rest))

\* OGGReader.NextPacket from line 169 on (the reader is past its first-call block)
OggNextPacketFrom(src, o) ==
    IF o.packetIndex = o.CurrentPage.packetsCount
    THEN
        \* packets[packetsCount]: out of range when packets is nil
        IF o.CurrentPage.packetsCount >= Len(o.CurrentPage.packets)
        THEN [o |-> o, err |-> "panic", packet |-> NilSlice]
        ELSE OggNextPage(src, o.CurrentPage.packets[o.CurrentPage.packetsCount + 1],
                         readPage(src, RecordGranule(o)))
    ELSE
        \* packets[packetIndex]
        IF o.packetIndex < 0 \/ o.packetIndex >= Len(o.CurrentPage.packets)
        THEN [o |-> o, err |-> "panic", packet |-> NilSlice]
        ELSE [o      |-> ArmLatch([o EXCEPT !.packetIndex = @ + 1]),
              err    |-> "nil",
              packet |-> o.CurrentPage.packets[o.packetIndex + 1]]

\* lines 160-168: r is the outcome of the first readPage
OggFirstPage(src, r) ==
    IF r.err # "nil" THEN [o |-> r.o, err |-> r.err, packet |-> NilSlice]
    ELSE OggNextPacketFrom(src,
            [r.o EXCEPT !.packetIndex =
                            IF HasFlag(r.o.CurrentPage.HeaderType,
                                       headerFlagContinuedPacket)
                            THEN 1 ELSE 0,
                        !.initialized = TRUE])

\* OGGReader.NextPacket
OggNextPacket(src, o) ==
    IF ~o.initialized
    THEN OggFirstPage(src, readPage(src, o))
    ELSE OggNextPacketFrom(src, o)

(***************************************************************************)
(* OPUSReader (opusreader.go)                                              *)
(***************************************************************************)
opusHeadPrefix == <<79, 112, 117, 115, 72, 101, 97, 100>>   \* "OpusHead"
opusTagsPrefix == <<79, 112, 117, 115, 84, 97, 103, 115>>   \* "OpusTags"
OpPrefix == <<79, 112>>                                      \* "Op"

SampleRate == 48000

\* OPUSIDHeader{}
ZeroIDHeader ==
    [CapturePattern       |-> <<0, 0, 0, 0, 0, 0, 0, 0>>,
     Version              |-> 0,
     ChannelCount         |-> 0,
     PreSkip              |-> 0,
     InputSampleRate      |-> 0,
     OutputGain           |-> 0,
     ChannelMappingFamily |-> 0]

\* NewOpusReader (the OGGReader field is the variable ogg)
NewOpusReader ==
    [OPUSIDHeader |-> ZeroIDHeader,
     VendorName   |-> NilSlice,
     skipped      |-> 0,
     initialized  |-> FALSE,
     LastPacket   |-> FALSE,
     Duration     |-> 0]

\* the nil *OPUSPacket
NilPacket ==
    [nil |-> TRUE, ConfigCode |-> 0, SoundMode |-> 0, FramesNumber |-> 0,
     SamplesNumberPerFrame |-> 0, TotalSamples |-> 0, PacketData |-> NilSlice]

\* the Hybrid test taken as "any of bits 6..5 set"
getSamplesPerFrameLooseHybrid(b0) ==
    LET fs == SampleRate IN
    IF b0 >= 128
    THEN (fs * 2 ^ ((b0 \div 8) % 4)) \div 400
    ELSE IF (b0 \div 32) % 4 # 0
    THEN IF (b0 \div 8) % 2 = 1 THEN fs \div 50 ELSE fs \div 100
    ELSE LET audiosize == (b0 \div 8) % 4 IN
         IF audiosize = 3 THEN (fs * 60) \div 1000 ELSE (fs * 2 ^ audiosize) \div 100

\* getSamplesPerFrame on the TOC byte data[0]
getSamplesPerFrame(b0) ==
    LET fs == SampleRate IN
    IF b0 >= 128                                   \* data[0] & 0x80 != 0
    THEN (fs * 2 ^ ((b0 \div 8) % 4)) \div 400
    ELSE IF (b0 \div 32) % 4 = 3                   \* data[0] & 0x60 == 0x60
    THEN IF (b0 \div 8) % 2 = 1                    \* data[0] & 0x8 != 0
         THEN fs \div 50
         ELSE fs \div 100
    ELSE LET audiosize == (b0 \div 8) % 4 IN
         IF audiosize = 3
         THEN (fs * 60) \div 1000
         ELSE (fs * 2 ^ audiosize) \div 100

\* getFramesNumberInPacket: frames, or a panic on packet[1]
getFramesNumberInPacket(packet) ==
    LET code == SliceAt(packet, 0) % 4 IN
    IF code = 0 THEN [panic |-> FALSE, n |-> 1]
    ELSE IF code # 3 THEN [panic |-> FALSE, n |-> 2]
    ELSE IF ~IndexOK(packet, 1) THEN [panic |-> TRUE, n |-> 0]
    ELSE [panic |-> FALSE, n |-> SliceAt(packet, 1) % 64]

\* lines 96-105 of readPacketConfig: the config literal and TotalSamples
PacketConfig(data, fr, sp) ==
    IF fr.panic THEN [err |-> "panic", p |-> NilPacket]
    ELSE [err |-> "nil",
          p   |-> [nil                   |-> FALSE,
                   ConfigCode            |-> (SliceAt(data, 0) \div 8) % 32,
                   SoundMode             |-> (SliceAt(data, 0) \div 4) % 2,
                   FramesNumber          |-> fr.n,
                   SamplesNumberPerFrame |-> sp,
                   TotalSamples          |-> fr.n * sp,
                   PacketData            |-> data]]

\* OPUSPacket.readPacketConfig on a packet whose PacketData is data
readPacketConfig(data) ==
    IF data.len < 1
    THEN [err |-> "opusreader: invalid TOC byte", p |-> NilPacket]
    ELSE PacketConfig(data, getFramesNumberInPacket(data),
                      getSamplesPerFrame(SliceAt(data, 0)))

\* lines 149-159 of readIDHeader: the header decoded from the packet h
DecodeIDHeader(h) ==
    [CapturePattern       |-> ZeroIDHeader.CapturePattern,
     Version              |-> SliceAt(h, 8),
     ChannelCount         |-> SliceAt(h, 9),
     PreSkip              |-> LittleEndianUint(SliceSub(h, 10, 12)),
     InputSampleRate      |-> LittleEndianUint(SliceSub(h, 12, 16)),
     OutputGain           |-> LittleEndianUint(SliceSub(h, 16, 18)),
     ChannelMappingFamily |-> SliceAt(h, 18)]

\* lines 143-167 of readIDHeader: the error, or "nil" and the header to store
CheckIDHeader(h) ==
    IF ~SliceOK(h, 0, 8) THEN "panic"
    ELSE IF SliceSub(h, 0, 8) # opusHeadPrefix
    THEN "opusreader: invalid id header prefix"
    ELSE IF ~IndexOK(h, 8) \/ ~IndexOK(h, 9) THEN "panic"
    ELSE IF SliceAt(h, 9) = 0 THEN "opusreader: channels count < 1"
    ELSE IF ~SliceOK(h, 10, 12) \/ ~SliceOK(h, 12, 16) \/ ~SliceOK(h, 16, 18)
            \/ ~IndexOK(h, 18)
    THEN "panic"
    ELSE IF SliceAt(h, 18) # 0
    THEN "opusreader: for now library supports only channel mapping 0"
    ELSE "nil"

\* lines 149-167 of readIDHeader: err is the outcome of the checks on h
readIDHeaderStore(g, r, h, err) ==
    IF err # "nil" THEN [ogg |-> g, opus |-> r, err |-> err]
    ELSE [ogg |-> g, opus |-> [r EXCEPT !.OPUSIDHeader = DecodeIDHeader(h)],
          err |-> "nil"]

\* lines 139-167 of readIDHeader: n is the outcome of OGGReader.NextPacket
readIDHeaderPacket(n, r) ==
    IF n.err # "nil" THEN [ogg |-> n.o, opus |-> r, err |-> n.err]
    ELSE readIDHeaderStore(n.o, r, n.packet, CheckIDHeader(n.packet))

\* OPUSReader.readIDHeader
readIDHeader(src, g, r) == readIDHeaderPacket(OggNextPacket(src, g), r)

\* the vendor string taken from the offset of its length field
VendorRangeAtLength(vendorNameLength) ==
    [lo |-> 8, hi |-> 8 + vendorNameLength]

\* line 185: headerPacketData[12 : 12+vendorNameLength]
VendorRange(vendorNameLength) ==
    [lo |-> 12, hi |-> 12 + vendorNameLength]

\* line 185 of readTags: rg is the range of the vendor string in h
readTagsVendor(g, r, h, rg) ==
    IF ~SliceOK(h, rg.lo, rg.hi) THEN [ogg |-> g, opus |-> r, err |-> "panic"]
    ELSE [ogg  |-> g,
          opus |-> [r EXCEPT !.VendorName = MkSlice(h.arr, h.off + rg.lo, h.off + rg.hi)],
          err  |-> "nil"]

\* lines 174-186 of readTags: n is the outcome of OGGReader.NextPacket
readTagsPacket(n, r) ==
    IF n.err # "nil" THEN [ogg |-> n.o, opus |-> r, err |-> n.err]
    ELSE IF ~SliceOK(n.packet, 0, 8) THEN [ogg |-> n.o, opus |-> r, err |-> "panic"]
    ELSE IF SliceSub(n.packet, 0, 8) # opusTagsPrefix
    THEN [ogg |-> n.o, opus |-> r, err |-> "opusreader: invalid tags header prefix"]
    ELSE IF ~SliceOK(n.packet, 8, 12) THEN [ogg |-> n.o, opus |-> r, err |-> "panic"]
    ELSE readTagsVendor(n.o, r, n.packet,
                        VendorRange(LittleEndianUint(SliceSub(n.packet, 8, 12))))

\* OPUSReader.readTags
readTags(src, g, r) == readTagsPacket(OggNextPacket(src, g), r)

\* lines 129-133 of readHeaders: b is the outcome of readTags
readHeadersDone(b) ==
    IF b.err # "nil" THEN b ELSE [b EXCEPT !.opus.initialized = TRUE]

\* lines 121-128 of readHeaders: a is the outcome of readIDHeader
readHeadersTags(src, a) ==
    IF a.err # "nil" THEN a ELSE readHeadersDone(readTags(src, a.ogg, a.opus))

\* OPUSReader.readHeaders
readHeaders(src, g, r) == readHeadersTags(src, readIDHeader(src, g, r))

\* milliseconds first, then scaled: loses the fraction of a millisecond
MicrosecondsViaMillis(t) == ((t * 1000) \div SampleRate) * 1000

\* TotalSamples * 1000000 / 48000 in Go's 64-bit int.  The product exceeds
\* the range of the checker's integers, so the fraction is reduced by 8000:
\* (t * 125 * 8000) / (6 * 8000) has the same integer quotient as (t * 125) / 6.
Microseconds(t) == (t * (1000000 \div 8000)) \div (SampleRate \div 8000)

\* the whole remaining pre-skip is charged to the packet
SkipAmountUnclamped(total, needsSkip) ==
    IF needsSkip > 0 THEN needsSkip ELSE 0

\* lines 228-234: the part of the packet that is skipped (0 when needsSkip <= 0)
SkipAmount(total, needsSkip) ==
    IF needsSkip > 0
    THEN (IF total < needsSkip THEN total ELSE needsSkip)
    ELSE 0

\* the skipped counter is not advanced
ApplyPreSkipNoCount(r, p) ==
    IF p.SamplesNumberPerFrame > 0 /\ p.FramesNumber > 0
    THEN LET needsSkip == r.OPUSIDHeader.PreSkip - r.skipped
             skip      == SkipAmount(p.TotalSamples, needsSkip)
             p1        == [p EXCEPT !.TotalSamples = @ - skip]
         IN [opus |-> [r EXCEPT !.Duration = @ + Microseconds(p1.TotalSamples)],
             p    |-> p1]
    ELSE [opus |-> r, p |-> p]

\* lines 224-241: pre-skip bookkeeping and duration for a decoded packet
ApplyPreSkip(r, p) ==
    IF p.SamplesNumberPerFrame > 0 /\ p.FramesNumber > 0
    THEN LET needsSkip == r.OPUSIDHeader.PreSkip - r.skipped
             skip      == SkipAmount(p.TotalSamples, needsSkip)
             p1        == [p EXCEPT !.TotalSamples = @ - skip]
         IN [opus |-> [r EXCEPT !.skipped = @ + skip,
                                !.Duration = @ + Microseconds(p1.TotalSamples)],
             p    |-> p1]
    ELSE [opus |-> r, p |-> p]

\* a reader that never takes the terminal branch
NeverAtEOS(r) == FALSE

\* line 191: the terminal flag is consulted first
AtEOS(r) == r.LastPacket

\* line 243: a is the outcome of the pre-skip block
ReturnPacket(g, a) ==
    [ogg |-> g, opus |-> a.opus, err |-> "nil", packet |-> a.p]

\* lines 215-217: the terminal flag follows the OGGReader's latch
SetLastPacket(g, r) ==
    IF g.lastPacket THEN [r EXCEPT !.LastPacket = TRUE] ELSE r

RECURSIVE OpusNextPacket(_, _, _)
\* lines 219-243 of NextPacket: the packet decoded, the terminal flag set in r
OpusPacketDecoded(src, g, r, packetData, p) ==
    IF ~SliceOK(packetData, 0, 2)
    THEN [ogg |-> g, opus |-> r, err |-> "panic", packet |-> NilPacket]
    ELSE IF SliceSub(packetData, 0, 2) = OpPrefix
    THEN OpusNextPacket(src, g, r)
    ELSE ReturnPacket(g, ApplyPreSkip(r, p))

\* lines 211-217 of NextPacket: c is the outcome of readPacketConfig
OpusPacketConfig(src, g, r, packetData, c) ==
    IF c.err # "nil"
    THEN [ogg |-> g, opus |-> r, err |-> c.err, packet |-> NilPacket]
    ELSE OpusPacketDecoded(src, g, SetLastPacket(g, r), packetData, c.p)

\* lines 203-212 of NextPacket: n is the outcome of OGGReader.NextPacket
OpusOggPacket(src, r, n) ==
    IF n.err # "nil"
    THEN [ogg |-> n.o, opus |-> r, err |-> n.err, packet |-> NilPacket]
    ELSE OpusPacketConfig(src, n.o, r, n.packet, readPacketConfig(n.packet))

\* lines 195-203 of NextPacket: h is the outcome of the header block
OpusHeadersRead(src, h) ==
    IF h.err # "nil"
    THEN [ogg |-> h.ogg, opus |-> h.opus, err |-> h.err, packet |-> NilPacket]
    ELSE OpusOggPacket(src, h.opus, OggNextPacket(src, h.ogg))

\* OPUSReader.NextPacket
OpusNextPacket(src, g, r) ==
    IF AtEOS(r)
    THEN [ogg |-> g, opus |-> r, err |-> "opusreader: EOS", packet |-> NilPacket]
    ELSE OpusHeadersRead(src,
            IF ~r.initialized THEN readHeaders(src, g, r)
            ELSE [ogg |-> g, opus |-> r, err |-> "nil"])

(***************************************************************************)
(* Inputs: Ogg/Opus streams as an encoder (or a faulty one) produces them  *)
(***************************************************************************)
MaxAudio == 3          \* at most this many packets after the two headers
MaxOggPackets == 3     \* at most this many packets in a raw Ogg stream

PreSkips == {0, 312, 3001}

\* the identification header packet (RFC 7845 section 5.1)
MkOpusHead(magic, version, channels, preSkip, rate, gain, family) ==
    magic \o <<version, channels>> \o LEBytes(preSkip, 2) \o LEBytes(rate, 4)
    \o LEBytes(gain, 2) \o <<family>>

\* the comment header packet (RFC 7845 section 5.2): vendor, then no comments
MkOpusTags(magic, vendor) ==
    magic \o LEBytes(Len(vendor), 4) \o vendor \o LEBytes(0, 4)

VendorBytes == <<76, 97, 118, 102>>                        \* "Lavf"
NotOpusPrefix == <<1, 118, 111, 114, 98, 105, 115, 0>>     \* "\x01vorbis\x00"

GoodHead(preSkip) == MkOpusHead(opusHeadPrefix, 1, 2, preSkip, 48000, 258, 0)
GoodTags == MkOpusTags(opusTagsPrefix, VendorBytes)

\* n bytes of payload, none of them 'p'
Payload(n, seed) == [i \in 1..n |-> (i * seed) % 101]

\* audio packets an Opus encoder emits (RFC 6716 section 3.1)
AudioPalette ==
    { <<120>>,                         \* 0x78: Hybrid 20 ms, code 0, TOC only (DTX)
      <<9, 5, 5>>,                     \* 0x09: SILK 20 ms, code 1: 2 frames of 960
      <<251, 3, 0>>,                   \* 0xFB: CELT 20 ms, code 3, 3 frames of 960
      <<27, 0>>,                       \* 0x1B: SILK 60 ms, code 3, 0 frames
      <<79, 112, 1>>,                  \* "Op" + 1: an auxiliary tags packet
      <<128>> \o Payload(255, 7) }     \* 0x80: CELT 2.5 ms, 256 bytes, two segments

\* packets no Opus encoder emits: empty, and code 3 without its count byte
BadAudioPalette == { <<>>, <<123>> }

\* first and second packets that are not the Opus headers
BadHeads ==
    { MkOpusHead(NotOpusPrefix, 1, 2, 312, 48000, 0, 0),    \* other codec
      MkOpusHead(opusHeadPrefix, 1, 0, 312, 48000, 0, 0),   \* no channels
      MkOpusHead(opusHeadPrefix, 1, 2, 312, 48000, 0, 1),   \* mapping family 1
      <<1, 2, 3, 4>> }                                      \* shorter than the magic

BadTags == { MkOpusTags(NotOpusPrefix, VendorBytes) }

RECURSIVE SeqsUpTo(_, _)
\* all sequences over S of length at most n
SeqsUpTo(S, n) ==
    IF n = 0 THEN {<<>>}
    ELSE LET shorter == SeqsUpTo(S, n - 1) IN
         shorter \cup {Append(q, x) : q \in {t \in shorter : Len(t) = n - 1}, x \in S}

Layouts == {"perSeg", "perPkt", "hdrs", "one"}
Faults == {"none", "emptyPage"}

\* well-formed Ogg/Opus streams
GoodInputs ==
    { [pkts |-> <<GoodHead(ps), GoodTags>> \o a, layout |-> l, eos |-> TRUE,
       fault |-> "none"] :
        ps \in PreSkips, a \in SeqsUpTo(AudioPalette, MaxAudio), l \in Layouts }

\* streams that lack the end-of-stream flag, hold packets that are not Opus
\* packets, or hold a page without segments
OddInputs ==
    { [pkts |-> <<GoodHead(312), GoodTags>> \o a, layout |-> l, eos |-> e,
       fault |-> f] :
        a \in SeqsUpTo(AudioPalette \cup BadAudioPalette, MaxAudio - 1),
        l \in {"perPkt", "one"}, e \in BOOLEAN, f \in Faults }

\* streams whose first two packets are not the Opus headers
BadHeaderInputs ==
    { [pkts |-> <<h, t, <<9, 5, 5>> >>, layout |-> l, eos |-> TRUE, fault |-> "none"] :
        h \in BadHeads \cup {GoodHead(312)}, t \in BadTags \cup {GoodTags},
        l \in {"perPkt", "one"} }

OpusInputs == GoodInputs \cup OddInputs \cup BadHeaderInputs

\* raw Ogg packets of 0, 1, 3, 255 and 256 bytes
OggPalette ==
    { <<>>, <<7>>, <<1, 2, 3>>, Payload(255, 3), Payload(256, 5) }

OggInputs ==
    { [pkts |-> a, layout |-> l, eos |-> e, fault |-> f] :
        a \in SeqsUpTo(OggPalette, MaxOggPackets) \ {<<>>},
        l \in Layouts, e \in BOOLEAN, f \in Faults }

\* packets of 1, 256 and 511 bytes: one, two and three segments
LongPalette == { <<7>>, Payload(256, 5), Payload(511, 11) }

MaxSpanPackets == 2    \* at most this many packets in a stream of long packets

\* streams with packets that span two or three pages
SpanInputs ==
    { [pkts |-> a, layout |-> l, eos |-> TRUE, fault |-> "none"] :
        a \in SeqsUpTo(LongPalette, MaxSpanPackets) \ {<<>>},
        l \in {"perSeg", "pairs"} }

\* the same streams damaged on their way to the reader
DamagedInputs ==
    { [pkts |-> d.pkts, layout |-> d.layout, eos |-> d.eos, fault |-> f] :
        d \in SpanInputs, f \in {"lostContinuation", "joinedLate"} }

\* lacing values of a packet of n bytes
Lacing(n) ==
    [i \in 1..(n \div LacingMax + 1) |->
        IF i <= n \div LacingMax THEN LacingMax ELSE n % LacingMax]

\* the segments of packet number k
PacketSegs(p, k) ==
    LET lac == Lacing(Len(p)) IN
    [i \in 1..Len(lac) |->
        [v     |-> lac[i],
         k     |-> k,
         first |-> (i = 1),
         last  |-> (i = Len(lac)),
         data  |-> SubSeq(p, (i - 1) * LacingMax + 1, (i - 1) * LacingMax + lac[i])]]

RECURSIVE AllSegsFrom(_, _)
AllSegsFrom(pkts, k) ==
    IF k > Len(pkts) THEN <<>>
    ELSE PacketSegs(pkts[k], k) \o AllSegsFrom(pkts, k + 1)

AllSegs(pkts) == AllSegsFrom(pkts, 1)

\* the segment indexes after which a page ends
Cuts(segs, layout) ==
    LET n == Len(segs) IN
    CASE layout = "perSeg" -> 1..n
      [] layout = "perPkt" -> {i \in 1..n : segs[i].last}
      [] layout = "hdrs"   -> {i \in 1..n : segs[i].last /\ segs[i].k <= 2} \cup {n}
      [] layout = "one"    -> {n}
      [] layout = "pairs"  -> {i \in 1..n : i % 2 = 0} \cup {n}

RECURSIVE PagesFrom(_, _, _, _)
\* the pages that hold segs[from..], given the cut set
PagesFrom(segs, cuts, from, eos) ==
    IF from > Len(segs) THEN <<>>
    ELSE LET to   == CHOOSE c \in cuts : c >= from /\ \A d \in cuts : d >= from => c <= d
             run  == SubSeq(segs, from, to)
             ends == \E i \in 1..Len(run) : run[i].last
             ht   == (IF run[1].first THEN 0 ELSE headerFlagContinuedPacket)
                     + (IF from = 1 THEN headerFlagBeginningOfStream ELSE 0)
                     + (IF to = Len(segs) /\ eos THEN headerFlagEndOfStream ELSE 0)
         IN  <<[htype   |-> ht,
                granule |-> IF ends THEN run[Len(run)].k * 960 ELSE -1,
                segs    |-> [i \in 1..Len(run) |-> run[i].v],
                body    |-> Concat([i \in 1..Len(run) |-> run[i].data]),
                run     |-> run]>>
             \o PagesFrom(segs, cuts, to + 1, eos)

\* a page without segments (RFC 3533 allows 0..255 segments)
EmptyPage == [htype |-> 0, granule |-> -1, segs |-> <<>>, body |-> <<>>, run |-> <<>>]

\* the pages that reach the reader.  Faults: a muxer that puts an empty page
\* before the last page; a transport that loses every page carrying the
\* continued flag; a reader that joins the stream after its first page.
Paginate(d) ==
    LET segs  == AllSegs(d.pkts)
        pages == PagesFrom(segs, Cuts(segs, d.layout), 1, d.eos)
        n     == Len(pages)
    IN CASE d.fault = "emptyPage" ->
              SubSeq(pages, 1, n - 1) \o <<EmptyPage>> \o SubSeq(pages, n, n)
         [] d.fault = "lostContinuation" ->
              SelectSeq(pages, LAMBDA p : (p.htype \div headerFlagContinuedPacket) % 2 = 0)
         [] d.fault = "joinedLate" -> SubSeq(pages, 2, n)
         [] OTHER -> pages

EncodePage(p, seqno) ==
    capturePattern \o <<0, p.htype>> \o LEInt64Bytes(p.granule)
    \o LEBytes(1, 4) \o LEBytes(seqno, 4) \o LEBytes(0, 4)
    \o <<Len(p.segs)>> \o p.segs \o p.body

EncodeStream(pages) == Concat([i \in 1..Len(pages) |-> EncodePage(pages[i], i - 1)])

HasPrefix(p, pre) == Len(p) >= Len(pre) /\ SubSeq(p, 1, Len(pre)) = pre

ValidHead(p) ==
    Len(p) >= 19 /\ HasPrefix(p, opusHeadPrefix) /\ p[10] >= 1 /\ p[19] = 0

ValidTags(p) ==
    /\ Len(p) >= 12
    /\ HasPrefix(p, opusTagsPrefix)
    /\ p[12] < 128
    /\ 12 + LittleEndianUint(SubSeq(p, 9, 12)) <= Len(p)

\* RFC 6716 section 3: at least the TOC byte; code 3 needs the frame count byte
ValidAudio(p) == Len(p) >= 1 /\ (p[1] % 4 = 3 => Len(p) >= 2)

\* a well-formed Ogg/Opus stream: headers, Opus packets, end-of-stream flag
WellFormed(d) ==
    /\ d.eos
    /\ d.fault = "none"
    /\ Len(d.pkts) >= 2
    /\ ValidHead(d.pkts[1])
    /\ ValidTags(d.pkts[2])
    /\ \A i \in 3..Len(d.pkts) : ValidAudio(d.pkts[i])

\* the audio packets of the stream: the packets after the two headers that
\* are not empty and do not start with "Op"
ExpectedAudio(d) ==
    SelectSeq(SubSeq(d.pkts, 3, Len(d.pkts)),
              LAMBDA p : p # <<>> /\ ~HasPrefix(p, OpPrefix))

(***************************************************************************)
(* The caller: successive calls on one reader                              *)
(***************************************************************************)
\* what the caller saw of the reader before its last call
Snapshot(g, r) ==
    [LastPacket  |-> r.LastPacket,
     initialized |-> r.initialized,
     Duration    |-> r.Duration,
     skipped     |-> r.skipped,
     header      |-> r.OPUSIDHeader,
     VendorName  |-> r.VendorName,
     pos         |-> g.pos]

NoCall ==
    [op |-> "none", err |-> "nil", data |-> NilSlice, packet |-> NilPacket,
     pre |-> Snapshot(NewOggReader, NewOpusReader)]

NoHist == [nOgg |-> 0, nAudio |-> 0, sumTotal |-> 0, sumRaw |-> 0, sumDur |-> 0]

IdleTOC == [in |-> 0, out |-> 0, done |-> FALSE]

InitReader ==
    /\ stream = EncodeStream(Paginate(desc))
    /\ ogg = NewOggReader
    /\ opus = NewOpusReader
    /\ last = NoCall
    /\ hist = NoHist

Init == desc \in OpusInputs /\ InitReader /\ toc = IdleTOC

\* what the caller holds once a call of OPUSReader.NextPacket has ended in r
OpusReturn(r) ==
    /\ ogg' = r.ogg
    /\ opus' = r.opus
    /\ last' = [op |-> "opus", err |-> r.err, data |-> r.packet.PacketData,
                packet |-> r.packet, pre |-> Snapshot(ogg, opus)]
    /\ hist' = IF r.err = "nil"
               THEN [hist EXCEPT
                       !.nAudio = @ + 1,
                       !.sumTotal = @ + r.packet.TotalSamples,
                       !.sumRaw = @ + r.packet.FramesNumber
                                      * r.packet.SamplesNumberPerFrame,
                       !.sumDur = @ + (r.packet.TotalSamples * 1000) \div 48]
               ELSE hist

\* a call of OPUSReader.NextPacket by the caller; a panic ends the program
OpusCall ==
    /\ last.err # "panic"
    /\ OpusReturn(OpusNextPacket(stream, ogg, opus))
    /\ UNCHANGED <<desc, stream, toc>>

Next == OpusCall

Spec == Init /\ [][Next]_vars

\* a caller that uses the Ogg layer alone: successive OGGReader.NextPacket calls
InitOgg == desc \in OggInputs \cup SpanInputs /\ InitReader /\ toc = IdleTOC

\* what the caller holds once a call of OGGReader.NextPacket has ended in r
OggReturn(r) ==
    /\ ogg' = r.o
    /\ last' = [op |-> "ogg", err |-> r.err, data |-> r.packet,
                packet |-> NilPacket, pre |-> Snapshot(ogg, opus)]
    /\ hist' = IF r.err = "nil" THEN [hist EXCEPT !.nOgg = @ + 1] ELSE hist

OggCall ==
    /\ last.err # "panic"
    /\ OggReturn(OggNextPacket(stream, ogg))
    /\ UNCHANGED <<desc, stream, opus, toc>>

NextOgg == OggCall

SpecOgg == InitOgg /\ [][NextOgg]_vars

\* the Ogg layer alone on a stream that was damaged in transit
InitOggDamaged == desc \in DamagedInputs /\ InitReader /\ toc = IdleTOC

SpecOggDamaged == InitOggDamaged /\ [][NextOgg]_vars

\* the TOC interpreter applied to every TOC byte
InitTOC ==
    /\ desc = [pkts |-> <<>>, layout |-> "one", eos |-> FALSE, fault |-> "none"]
    /\ stream = <<>>
    /\ ogg = NewOggReader
    /\ opus = NewOpusReader
    /\ last = NoCall
    /\ hist = NoHist
    /\ toc \in {[in |-> b, out |-> 0, done |-> FALSE] : b \in 0..255}

TOCCall ==
    /\ ~toc.done
    /\ toc' = [in |-> toc.in, out |-> getSamplesPerFrame(toc.in), done |-> TRUE]
    /\ UNCHANGED <<desc, stream, ogg, opus, last, hist>>

NextTOC == TOCCall

SpecTOC == InitTOC /\ [][NextTOC]_vars

(***************************************************************************)
(* Properties                                                              *)
(***************************************************************************)
EOS == "opusreader: EOS"

NAudio == Len(ExpectedAudio(desc))

\* the last packet of the stream is an audio packet that gets delivered
EndsWithAudio ==
    /\ Len(desc.pkts) >= 3
    /\ desc.pkts[Len(desc.pkts)] # <<>>
    /\ ~HasPrefix(desc.pkts[Len(desc.pkts)], OpPrefix)

\* C1: for a stream whose final page is flagged end-of-stream, the end-of-stream
\* error is returned only by a call made after every audio packet has been
\* delivered; the call that delivers the last audio packet returns that packet
\* with a nil error, and when it is the last packet of the stream that call
\* arms the terminal flag for the following call.
C1_EOSOnlyAfterLastPacket ==
    (desc.eos /\ last.op = "opus") =>
        /\ last.err = EOS => hist.nAudio = NAudio
        /\ (last.err = "nil" /\ hist.nAudio = NAudio) =>
              /\ ~last.packet.nil
              /\ SliceBytes(last.packet.PacketData) = ExpectedAudio(desc)[NAudio]
              /\ EndsWithAudio => opus.LastPacket

\* two audio packets were delivered, the last one armed the flag, and the
\* following call returned the end-of-stream error
C1_Witness ==
    /\ desc.eos /\ EndsWithAudio /\ NAudio >= 2
    /\ last.op = "opus" /\ last.err = EOS /\ last.pre.LastPacket
    /\ hist.nAudio = NAudio

\* C2: once LastPacket is true, every later OPUSReader.NextPacket call returns
\* the end-of-stream error and no packet, reads nothing from the Ogg layer and
\* leaves the whole reader (Duration, skipped, LastPacket) unchanged.
C2_TerminalAbsorbing ==
    [][opus.LastPacket =>
          /\ last'.err = EOS
          /\ last'.packet.nil
          /\ ogg' = ogg
          /\ opus' = opus]_vars

\* a call was made in the terminal state, after audio had been delivered
C2_Witness ==
    /\ last.op = "opus" /\ last.pre.LastPacket /\ last.err = EOS
    /\ opus.LastPacket /\ opus.Duration > 0

\* the Ogg packets of the stream minus the two headers minus the "Op" packets
NonOpCount ==
    Len(desc.pkts) - 2
    - Cardinality({i \in 3..Len(desc.pkts) : HasPrefix(desc.pkts[i], OpPrefix)})

\* C3: for a well-formed Ogg/Opus input, every call returns the next audio
\* packet until all of them have been returned: a call fails (end of stream or
\* otherwise) only when the number of packets returned is the number of Ogg
\* packets minus the two headers minus the "Op" packets; "Op" packets are never
\* returned, and Duration and the pre-skip counter account for the returned
\* packets only.
C3_AllAudioPacketsReturned ==
    (WellFormed(desc) /\ last.op = "opus") =>
        /\ last.err = "nil" =>
              SliceBytes(last.packet.PacketData) = ExpectedAudio(desc)[hist.nAudio]
        /\ last.err # "nil" => hist.nAudio = NonOpCount
        /\ opus.Duration = hist.sumDur
        /\ opus.skipped = hist.sumRaw - hist.sumTotal

\* the same statement for streams without a one-byte packet
C3_HoldsForLongerPackets ==
    (\A i \in 3..Len(desc.pkts) : Len(desc.pkts[i]) >= 2) => C3_AllAudioPacketsReturned

\* C4: the packets returned by successive OGGReader.NextPacket calls are, in
\* order and byte for byte, the logical packets laid out by the segment tables
\* of the pages: the k-th packet returned is the k-th packet of the stream, and
\* the calls fail only after the last packet of the stream has been returned.
C4_PacketsRoundTrip ==
    last.op = "ogg" =>
        /\ last.err = "nil" =>
              /\ hist.nOgg <= Len(desc.pkts)
              /\ SliceBytes(last.data) = desc.pkts[hist.nOgg]
        /\ last.err # "nil" => hist.nOgg = Len(desc.pkts)

\* the same statement for streams in which every page has a segment
C4_HoldsWithoutEmptyPages == desc.fault = "none" => C4_PacketsRoundTrip

PreSkipOf(d) == LittleEndianUint(SubSeq(d.pkts[1], 11, 12))

Max(a, b) == IF a >= b THEN a ELSE b

\* C5: after any sequence of returned audio packets the sum of their reported
\* TotalSamples is max(0, sum of raw FramesNumber * SamplesNumberPerFrame minus
\* PreSkip), and the skipped counter is the difference of the two sums and
\* never exceeds PreSkip.
C5_PreSkipSum ==
    (last.op = "opus" /\ hist.nAudio > 0) =>
        /\ opus.OPUSIDHeader.PreSkip = PreSkipOf(desc)
        /\ hist.sumTotal = Max(0, hist.sumRaw - PreSkipOf(desc))
        /\ opus.skipped = hist.sumRaw - hist.sumTotal
        /\ opus.skipped <= PreSkipOf(desc)

\* a pre-skip of 3001 samples was consumed across two packets: the call before
\* left part of it, the last call took the rest and reported what remained
C5_Witness ==
    /\ last.op = "opus" /\ last.err = "nil"
    /\ PreSkipOf(desc) = 3001
    /\ 0 < last.pre.skipped /\ last.pre.skipped < 3001
    /\ opus.skipped = 3001
    /\ last.packet.TotalSamples > 0

\* C6 as stated: every returned packet's TotalSamples equals its
\* FramesNumber * SamplesNumberPerFrame.
C6_TotalIsFramesTimesSamples ==
    (last.op = "opus" /\ last.err = "nil") =>
        last.packet.TotalSamples
            = last.packet.FramesNumber * last.packet.SamplesNumberPerFrame

\* C6 amended: every returned packet's TotalSamples equals its
\* FramesNumber * SamplesNumberPerFrame minus the pre-skip charged to it, which
\* is the growth of the skipped counter during the call; the two are equal for
\* every packet returned once the pre-skip has been consumed.
C6_TotalIsProductMinusSkip ==
    (last.op = "opus" /\ last.err = "nil") =>
        LET raw == last.packet.FramesNumber * last.packet.SamplesNumberPerFrame IN
        /\ last.packet.TotalSamples = raw - (opus.skipped - last.pre.skipped)
        /\ last.packet.TotalSamples >= 0
        /\ last.pre.skipped = PreSkipOf(desc) => last.packet.TotalSamples = raw

\* a packet of 2 frames of 960 was returned with 312 samples skipped: 1608
C6_Witness ==
    /\ last.op = "opus" /\ last.err = "nil"
    /\ last.packet.FramesNumber = 2 /\ last.packet.SamplesNumberPerFrame = 960
    /\ opus.skipped - last.pre.skipped = 312
    /\ last.packet.TotalSamples = 1608

\* C7: Duration is the sum over the returned packets of the integer quotient
\* (TotalSamples * 1000000) / 48000 taken per packet (1000000/48000 = 1000/48);
\* a successful call adds exactly that quotient and a failed call adds nothing.
C7_DurationPerPacket ==
    last.op = "opus" =>
        /\ opus.Duration = hist.sumDur
        /\ last.err = "nil" =>
              LET q == opus.Duration - last.pre.Duration
                  t == last.packet.TotalSamples
              IN 48 * q <= 1000 * t /\ 1000 * t < 48 * (q + 1)
        /\ last.err # "nil" => opus.Duration = last.pre.Duration

\* a packet was added to a Duration that holds a truncated quotient (the packet
\* that used up a pre-skip of 3001 lasted a fraction of a microsecond more)
C7_Witness ==
    /\ last.op = "opus" /\ last.err = "nil"
    /\ last.pre.Duration % 125 # 0
    /\ opus.Duration > last.pre.Duration

\* the frame sizes of the Opus configuration table (RFC 6716, table 2) at 48 kHz
StandardFrameSize(config) ==
    IF config <= 11 THEN <<480, 960, 1920, 2880>>[(config % 4) + 1]
    ELSE IF config <= 15 THEN <<480, 960, 480, 960>>[(config % 4) + 1]
    ELSE <<120, 240, 480, 960>>[(config % 4) + 1]

\* C8: for every TOC byte, getSamplesPerFrame returns the frame size of the
\* standard configuration table for config = TOC >> 3, whatever the low three
\* bits are.
C8_SamplesPerFrameTable ==
    toc.done => toc.out = StandardFrameSize(toc.in \div 8)

\* the TOC byte 0x7F (config 15, low bits all set) gave 960
C8_Witness == toc.done /\ toc.in = 127 /\ toc.out = 960

\* C9: after a call that returns without error the reader is initialized, the
\* ID-header fields are the little-endian decoding of the first Ogg packet,
\* VendorName is the L bytes after the 32-bit length of the second Ogg packet,
\* and the packet returned is an audio packet (third Ogg packet or later), the
\* next one in order; a call on an initialized reader leaves the header fields
\* and the vendor name as they were.
C9_HeadersReadOnce ==
    (last.op = "opus" /\ last.err = "nil") =>
        LET h == desc.pkts[1]
            t == desc.pkts[2]
            L == LittleEndianUint(SubSeq(t, 9, 12))
        IN
        /\ opus.initialized
        /\ opus.OPUSIDHeader.Version = h[9]
        /\ opus.OPUSIDHeader.ChannelCount = h[10]
        /\ opus.OPUSIDHeader.PreSkip = h[11] + 256 * h[12]
        /\ opus.OPUSIDHeader.InputSampleRate
              = h[13] + 256 * h[14] + 65536 * h[15] + 16777216 * h[16]
        /\ opus.OPUSIDHeader.OutputGain = h[17] + 256 * h[18]
        /\ SliceBytes(opus.VendorName) = SubSeq(t, 13, 12 + L)
        /\ SliceBytes(last.packet.PacketData) = ExpectedAudio(desc)[hist.nAudio]
        /\ last.pre.initialized =>
              /\ opus.OPUSIDHeader = last.pre.header
              /\ opus.VendorName = last.pre.VendorName

\* a second packet was returned by a call on the initialized reader
C9_Witness ==
    /\ last.op = "opus" /\ last.err = "nil"
    /\ last.pre.initialized
    /\ hist.nAudio = 2
    /\ opus.OPUSIDHeader.PreSkip = 312
    /\ SliceBytes(opus.VendorName) = VendorBytes

\* the first packet is rejected as an ID header
BadIDHeader(d) ==
    LET h == d.pkts[1] IN
    \/ ~HasPrefix(h, opusHeadPrefix)
    \/ (Len(h) >= 10 /\ h[10] = 0)
    \/ (Len(h) >= 19 /\ h[19] # 0)

\* C10: if the first packet does not begin with "OpusHead", declares channel
\* count 0 or a mapping family other than 0, or the second packet does not
\* begin with "OpusTags", the first call returns an error and no packet, the
\* reader stays uninitialized, and after an ID-header rejection the ID-header
\* fields are still unset.
C10_BadHeadersRejected ==
    (/\ last.op = "opus"
     /\ last.pre.pos = 0
     /\ desc.fault = "none"
     /\ (BadIDHeader(desc) \/ ~HasPrefix(desc.pkts[2], opusTagsPrefix))) =>
        /\ last.err \notin {"nil", "panic"}
        /\ last.packet.nil
        /\ ~opus.initialized
        /\ BadIDHeader(desc) => opus.OPUSIDHeader = ZeroIDHeader

\* the same statement for first packets of at least the 8 bytes of the magic
C10_HoldsForLongFirstPackets ==
    Len(desc.pkts[1]) >= 8 => C10_BadHeadersRejected

InvalidTOC == "opusreader: invalid TOC byte"

\* an audio payload too short for its framing: empty, or code 3 without the
\* frame count byte
ShortCode3(p) == Len(p) < 2 /\ (Len(p) = 1 => p[1] % 4 = 3)

\* the first call met such a payload as the first packet after the two headers
FirstAudioIsShortCode3 ==
    /\ last.op = "opus"
    /\ last.pre.pos = 0
    /\ desc.fault = "none"
    /\ ValidHead(desc.pkts[1])
    /\ ValidTags(desc.pkts[2])
    /\ Len(desc.pkts) >= 3
    /\ ShortCode3(desc.pkts[3])

\* C11: an audio packet whose framing code is 3 and whose payload is shorter
\* than 2 bytes makes OPUSReader.NextPacket return the invalid-TOC error and no
\* packet, without a run-time fault, just as an empty payload does.
C11_ShortCode3IsInvalidTOC ==
    FirstAudioIsShortCode3 => (last.err = InvalidTOC /\ last.packet.nil)

\* the same statement for the empty payload alone
C11_HoldsForEmptyPayload ==
    (Len(desc.pkts) >= 3 /\ desc.pkts[3] # <<>>) \/ C11_ShortCode3IsInvalidTOC

\* C12: a page whose segment count is 0 is legal: OGGReader.NextPacket yields no
\* packet for it, moves on to the next page and returns that page's first
\* packet (or the read error when no page follows), without a run-time fault;
\* so the packets returned from a stream that holds such a page are the
\* packets of the stream, in order, and the calls fail only after the last one.
C12_EmptyPageSkipped ==
    (last.op = "ogg" /\ desc.fault = "emptyPage") =>
        /\ last.err # "panic"
        /\ last.err = "nil" => SliceBytes(last.data) = desc.pkts[hist.nOgg]
        /\ last.err # "nil" => hist.nOgg = Len(desc.pkts)

\* C13: the documented read loop (call NextPacket, whatever it returns, until
\* reader.LastPacket is true) terminates for every well-formed stream whose
\* last page is flagged end-of-stream.  The loop leaves only through
\* LastPacket, so it must never come to a stop before: in every state either
\* LastPacket is set or a further call is possible (the program has not
\* crashed).
C13_ReadLoopTerminates ==
    WellFormed(desc) => (opus.LastPacket \/ last.err # "panic")

\* no further call changes anything: the program has crashed, or the reader
\* is in its terminal state
Halted == last.err = "panic" \/ opus.LastPacket

\* the caller of the documented read loop keeps calling while a call is
\* possible: weak fairness of the call, with its enabling condition written out
FairSpec == Spec /\ ([]<>Halted \/ []<><<Next>>_vars)

\* for streams that hold an audio packet and no packet of fewer than two
\* bytes the loop does reach LastPacket, also when the last packet starts
\* with "Op"
C13_HoldsWithLongerAudio ==
    (/\ WellFormed(desc)
     /\ Len(desc.pkts) >= 3
     /\ \A i \in 3..Len(desc.pkts) : Len(desc.pkts[i]) >= 2) ~> opus.LastPacket

(***************************************************************************)
(* A live stream: the source ends early and is replaced through ResetReader *)
(***************************************************************************)
MaxLivePackets == 2    \* at most this many packets in a live stream

LivePalette == { <<7>>, <<1, 2, 3>> }

\* the whole stream, as it will exist once the producer has finished
FullStream(d) == EncodeStream(Paginate(d))

LiveStreams ==
    { [pkts |-> a, layout |-> l, eos |-> TRUE, fault |-> "none"] :
        a \in SeqsUpTo(LivePalette, MaxLivePackets) \ {<<>>},
        l \in {"perPkt", "one"} }

\* a stream of which only the first cut bytes exist when reading starts
LiveInputs ==
    UNION { { [pkts |-> d.pkts, layout |-> d.layout, eos |-> d.eos,
               fault |-> d.fault, cut |-> c] :
                 c \in 0..(Len(FullStream(d)) - 1) } : d \in LiveStreams }

InitLive ==
    /\ desc \in LiveInputs
    /\ stream = SubSeq(FullStream(desc), 1, desc.cut)
    /\ ogg = NewOggReader
    /\ opus = NewOpusReader
    /\ last = NoCall
    /\ hist = NoHist
    /\ toc = IdleTOC

\* OGGReader.ResetReader with a callback that returns a source positioned at
\* the byte offset it is passed
ResetReader(o) == [o EXCEPT !.pos = o.bytesReadSuccesfully]

\* the caller met the end of the source and swaps in the grown stream
ResetCall ==
    /\ last.op = "ogg"
    /\ last.err \in {"EOF", "unexpected EOF"}
    /\ stream # FullStream(desc)
    /\ stream' = FullStream(desc)
    /\ ogg' = ResetReader(ogg)
    /\ last' = [last EXCEPT !.op = "reset"]
    /\ UNCHANGED <<desc, opus, hist, toc>>

NextLive == OggCall \/ ResetCall

SpecLive == InitLive /\ [][NextLive]_vars

\* C14: after an OGGReader.NextPacket call failed because the source ran out
\* of bytes and ResetReader swapped in a source positioned at the offset it was
\* passed, the following calls return exactly the packets an uninterrupted
\* read returns from that point: the k-th packet returned is the k-th packet of
\* the stream and no call fails before the last packet has been returned.
C14_ResumeAfterReset ==
    (last.op = "ogg" /\ stream = FullStream(desc)) =>
        /\ last.err = "nil" => SliceBytes(last.data) = desc.pkts[hist.nOgg]
        /\ last.err # "nil" => hist.nOgg = Len(desc.pkts)

\* the same statement when the source ran out inside the header of the first page
C14_HoldsInFirstHeader == desc.cut < PageHeaderSize => C14_ResumeAfterReset

\* some page of the stream carries the continued flag
HasContinuedPage(d) ==
    \E i \in 1..Len(Paginate(d)) :
        HasFlag(Paginate(d)[i].htype, headerFlagContinuedPacket)

\* C15: in an undamaged stream, a packet that spans two or more consecutive
\* pages (earlier pages ending on a 255 segment, pages made only of 255
\* segments in between, receiving pages flagged continued) is returned exactly
\* once, as one packet: the k-th packet returned has the bytes of the k-th
\* packet of the stream, its length is the sum of its segment sizes, and the
\* calls fail only after all packets have been returned, so no fragment is
\* returned as a packet of its own.
C15_SpanningPacketReturnedOnce ==
    (last.op = "ogg" /\ desc.fault = "none" /\ HasContinuedPage(desc)) =>
        /\ last.err = "nil" =>
              /\ hist.nOgg <= Len(desc.pkts)
              /\ SliceBytes(last.data) = desc.pkts[hist.nOgg]
              /\ last.data.len = SumSeq(Lacing(Len(desc.pkts[hist.nOgg])))
        /\ last.err # "nil" => hist.nOgg = Len(desc.pkts)

\* a packet of 511 bytes laid out one segment per page (255, 255, 1: the middle
\* page holds a 255 segment only) was returned whole as the second packet
C15_Witness ==
    /\ last.op = "ogg" /\ last.err = "nil"
    /\ desc.fault = "none" /\ desc.layout = "perSeg"
    /\ hist.nOgg = 2
    /\ Len(desc.pkts[2]) = 511
    /\ SliceBytes(last.data) = desc.pkts[2]

\* the packets whose first and last segment lie in page p
PacketsWithin(p) ==
    { p.run[i].k : i \in {j \in 1..Len(p.run) : p.run[j].first} }
    \cap { p.run[i].k : i \in {j \in 1..Len(p.run) : p.run[j].last} }

\* the packets that begin in page p
PacketsBegunIn(p) ==
    { p.run[i].k : i \in {j \in 1..Len(p.run) : p.run[j].first} }

RECURSIVE PickPackets(_, _, _)
\* the packets of pkts whose number is in K, from number k on, in order
PickPackets(pkts, K, k) ==
    IF k > Len(pkts) THEN <<>>
    ELSE (IF k \in K THEN <<pkts[k]>> ELSE <<>>) \o PickPackets(pkts, K, k + 1)

\* the packets that lie whole in a page that reached the reader
WholePackets(d) ==
    PickPackets(d.pkts,
                UNION { PacketsWithin(Paginate(d)[i]) : i \in 1..Len(Paginate(d)) },
                1)

\* C16: when a page ends on a 255 segment and the page that follows does not
\* carry the continued flag, the trailing fragment is discarded: the packets
\* returned are the packets that lie whole in the pages read, each with
\* exactly its own bytes, and the bytes of the fragment are in none of them.
C16_BrokenContinuationDiscarded ==
    (last.op = "ogg" /\ desc.fault = "lostContinuation" /\ last.err = "nil") =>
        /\ hist.nOgg <= Len(WholePackets(desc))
        /\ SliceBytes(last.data) = WholePackets(desc)[hist.nOgg]

\* the same statement for streams in which no page ends on a 255 segment
C16_HoldsWithoutPromise ==
    (\A i \in 1..Len(Paginate(desc)) :
        LET sg == Paginate(desc)[i].segs IN sg # <<>> /\ sg[Len(sg)] # LacingMax)
    => C16_BrokenContinuationDiscarded

\* the packets that begin in a page that reached the reader
BegunPackets(d) ==
    PickPackets(d.pkts,
                UNION { PacketsBegunIn(Paginate(d)[i]) : i \in 1..Len(Paginate(d)) },
                1)

\* the reader joined the stream at a page that carries the continued flag
FirstPageContinued(d) ==
    /\ d.fault = "joinedLate"
    /\ Paginate(d) # <<>>
    /\ HasFlag(Paginate(d)[1].htype, headerFlagContinuedPacket)

\* C17: when the very first page carries the continued flag, the first call
\* discards the orphan fragment at its start and returns the next complete
\* packet, whatever the shape of that page (no complete packet, one, several):
\* the packets returned are the packets that begin in the pages read, in
\* order, and no call fails before the last of them has been returned.
C17_OrphanFragmentDiscarded ==
    (last.op = "ogg" /\ FirstPageContinued(desc)) =>
        /\ last.err = "nil" =>
              /\ hist.nOgg <= Len(BegunPackets(desc))
              /\ SliceBytes(last.data) = BegunPackets(desc)[hist.nOgg]
        /\ last.err # "nil" => hist.nOgg = Len(BegunPackets(desc))

\* the same statement for first pages in which a packet ends
C17_HoldsWhenAPacketEnds ==
    \/ /\ FirstPageContinued(desc)
       /\ \A i \in 1..Len(Paginate(desc)[1].segs) : Paginate(desc)[1].segs[i] = LacingMax
    \/ C17_OrphanFragmentDiscarded

\* the byte offset at which the first n pages of the stream end
PageEnd(d, n) == Len(EncodeStream(SubSeq(Paginate(d), 1, n)))

\* the number of pages the reader has read
PagesRead ==
    CHOOSE n \in 0..Len(Paginate(desc)) : PageEnd(desc, n) = ogg.bytesReadSuccesfully

\* the number of pages the reader has moved on from: all pages read but the
\* one it is on
PagesLeft == IF ogg.CurrentPage.initialized THEN PagesRead - 1 ELSE PagesRead

RECURSIVE LastGranule(_, _)
\* the granule position of the last of the first n pages that has one, else 0
LastGranule(pages, n) ==
    IF n = 0 THEN 0
    ELSE IF pages[n].granule # -1 THEN pages[n].granule
    ELSE LastGranule(pages, n - 1)

\* C18 as stated: once the end-of-stream latch has been armed, by the call
\* that returns the last packet of the end-of-stream page, lastPagePosition is
\* the granule position of the last page.
C18_GranuleOfLastPageAtLatch ==
    (last.op = "ogg" /\ last.err = "nil" /\ ogg.lastPacket) =>
        ogg.lastPagePosition = Paginate(desc)[Len(Paginate(desc))].granule

\* C18 amended: lastPagePosition is the granule position of the most recent
\* page the reader has moved on from whose granule position is not -1 (0 when
\* there is none); the page the reader is on does not count, so when the latch
\* is armed the field still holds the granule of an earlier page, and it takes
\* the last page's granule only on a further call, which reads past the end.
\* A page with granule -1 never changes it.
C18_GranuleOfPagesLeft ==
    last.op = "ogg" =>
        /\ ogg.lastPagePosition = LastGranule(Paginate(desc), PagesLeft)
        /\ (last.err = "nil" /\ ogg.lastPacket) =>
              ogg.lastPagePosition
                  = LastGranule(Paginate(desc), Len(Paginate(desc)) - 1)
        /\ (last.err = "EOF" /\ last.pre.pos = Len(stream)) =>
              ogg.lastPagePosition
                  = LastGranule(Paginate(desc), Len(Paginate(desc)))

\* the latch was armed on the third page; the page before it has no granule
\* position, so the field holds the granule of the first page and not that of
\* the last
C18_Witness ==
    /\ last.op = "ogg" /\ last.err = "nil" /\ ogg.lastPacket
    /\ desc.fault = "none"
    /\ Len(Paginate(desc)) = 3
    /\ Paginate(desc)[2].granule = -1
    /\ ogg.lastPagePosition = Paginate(desc)[1].granule
    /\ ogg.lastPagePosition # Paginate(desc)[3].granule

\* the counter is at the start of the stream or at the end of one of its pages
AtPageBoundary ==
    \E n \in 0..Len(Paginate(desc)) : PageEnd(desc, n) = ogg.bytesReadSuccesfully

\* C19: bytesReadSuccesfully counts the bytes of the reads that completed and
\* nothing of a read that failed or was short, so it never exceeds the offset
\* the source has reached; and whenever NextPacket has returned, with a packet
\* or with an error, the counter is at a page boundary of the input, an offset
\* from which a page parse can restart.
C19_CounterAtPageBoundary ==
    last.op = "ogg" =>
        /\ ogg.bytesReadSuccesfully <= ogg.pos
        /\ last.err = "nil" => ogg.bytesReadSuccesfully = ogg.pos
        /\ AtPageBoundary

\* the same statement for sources that run out at the end of a page
C19_HoldsForCutsBetweenPages ==
    (\E n \in 0..Len(Paginate(desc)) : PageEnd(desc, n) = desc.cut)
    => C19_CounterAtPageBoundary

\* the indexes NextPacket uses are in range
IndexesInRange(o) ==
    /\ 0 <= o.packetIndex
    /\ o.packetIndex <= o.CurrentPage.packetsCount
    /\ Len(o.CurrentPage.packets) = o.CurrentPage.packetsCount + 1

\* C20: after any sequence of OGGReader.NextPacket calls on any input, calls
\* made after a call that returned an error included, 0 <= packetIndex <=
\* packetsCount holds and packets has packetsCount + 1 entries, so that no
\* access packets[packetIndex] or packets[packetsCount] is out of range.
C20_IndexBounds ==
    (last.op = "ogg" /\ desc.fault = "none") =>
        (IndexesInRange(ogg) /\ last.err # "panic")

\* the same statement for the calls that return a packet
C20_HoldsWhenAPacketIsReturned ==
    last.err = "nil" => C20_IndexBounds

====
